---- MODULE Spec2Model ----
(***************************************************************************)
(* Difficulty-retarget estimator of the explorer backend                   *)
(* (backend/src/api/difficulty-adjustment.ts).                             *)
(*                                                                         *)
(* The module is a set of functions over values read from the block-data   *)
(* provider (`blocks`) and the configuration (`config.MEMPOOL.NETWORK`).   *)
(* The provider state and the wall clock are the state variables; `call`   *)
(* records the last call made: its operation, its arguments and how it     *)
(* ended (a returned value or a raised error).                             *)
(*                                                                         *)
(* Numbers.  JavaScript numbers are modelled as exact rationals [n, d]     *)
(* with d > 0, plus +Infinity [1, 0], -Infinity [-1, 0] and NaN [0, 0].    *)
(* BigInt targets are integers.  Percentages are in percent.               *)
(***************************************************************************)
EXTENDS Integers, Sequences, FiniteSets, TLC

VARIABLES network, currentHeight, blockCache, lastDATime, prevRetarget,
          quarterEpoch, now, call

vars == <<network, currentHeight, blockCache, lastDATime, prevRetarget,
          quarterEpoch, now, call>>

provider == <<network, currentHeight, blockCache, lastDATime, prevRetarget,
              quarterEpoch, now>>

(* ------------------------------ bounds -------------------------------- *)

\* largest exponent byte of the compact targets explored
MaxExp == 5
\* largest small mantissa of the compact targets explored
MaxMant == 4
\* heights explored reach this far above the mainnet activation height
HeightSpan == 1
\* old/new target quotients from here on are held as +Infinity (the value
\* Number(ratioFp) takes for the widest gaps); both clamps lie far below
RatioCap == 2000

(* ------------------------- rational arithmetic ------------------------ *)

\* an optional value: null/undefined is the empty sequence, a present value x
\* is <<x>>
Null == <<>>
Some(x) == <<x>>
IsPresent(o) == o # Null
Val(o) == o[1]

Abs(x) == IF x < 0 THEN -x ELSE x

RECURSIVE GCD(_, _)
GCD(a, b) == IF b = 0 THEN a ELSE GCD(b, a % b)

PosInf == [n |-> 1, d |-> 0]
NegInf == [n |-> -1, d |-> 0]
NaN == [n |-> 0, d |-> 0]

\* n/d in lowest terms with a positive denominator; x/0 as JavaScript has it
Rat(n, d) ==
  IF d = 0 THEN (IF n > 0 THEN PosInf ELSE IF n < 0 THEN NegInf ELSE NaN)
  ELSE LET g == GCD(Abs(n), Abs(d))
           s == IF d < 0 THEN -1 ELSE 1
       IN  [n |-> s * (n \div g), d |-> s * (d \div g)]

RInt(i) == [n |-> i, d |-> 1]

IsFinite(a) == a.d # 0

RAdd(a, b) ==
  IF IsFinite(a) /\ IsFinite(b) THEN Rat(a.n * b.d + b.n * a.d, a.d * b.d)
  ELSE IF ~IsFinite(a) /\ ~IsFinite(b) THEN (IF a = b THEN a ELSE NaN)
  ELSE IF IsFinite(a) THEN b ELSE a

RNeg(a) == [n |-> -a.n, d |-> a.d]

RSub(a, b) == RAdd(a, RNeg(b))

Sign(x) == IF x > 0 THEN 1 ELSE IF x < 0 THEN -1 ELSE 0

\* the product, cancelling common factors crosswise before multiplying
RMul(a, b) ==
  IF IsFinite(a) /\ IsFinite(b)
  THEN LET g1 == GCD(Abs(a.n), b.d)
           g2 == GCD(Abs(b.n), a.d)
       IN  Rat((a.n \div g1) * (b.n \div g2), (a.d \div g2) * (b.d \div g1))
  ELSE Rat(Sign(a.n) * Sign(b.n), 0)

RDiv(a, b) ==
  IF IsFinite(a) /\ IsFinite(b)
  THEN (IF b.n = 0 THEN Rat(a.n, 0)
        ELSE RMul(a, [n |-> Sign(b.n) * b.d, d |-> Abs(b.n)]))
  ELSE IF IsFinite(a) THEN (IF a = NaN \/ b = NaN THEN NaN ELSE RInt(0))
  ELSE IF IsFinite(b) THEN Rat(Sign(a.n) * (IF b.n < 0 THEN -1 ELSE 1), 0)
  ELSE NaN

\* a < b as JavaScript compares numbers (every comparison with NaN is false)
RLess(a, b) ==
  IF a = NaN \/ b = NaN THEN FALSE
  ELSE IF ~IsFinite(a) \/ ~IsFinite(b)
       THEN a # b /\ (a = NegInf \/ b = PosInf)
  ELSE LET fa == a.n \div a.d
           fb == b.n \div b.d
       IN  IF fa # fb THEN fa < fb
           ELSE (a.n % a.d) * b.d < (b.n % b.d) * a.d

RLeq(a, b) == a # NaN /\ b # NaN /\ ~RLess(b, a)

\* Math.floor of a finite number
RFloor(a) == a.n \div a.d

\* Math.min / Math.max of two numbers
RMin(a, b) == IF a = NaN \/ b = NaN THEN NaN ELSE IF RLess(b, a) THEN b ELSE a
RMax(a, b) == IF a = NaN \/ b = NaN THEN NaN ELSE IF RLess(a, b) THEN b ELSE a

IMin(a, b) == IF b < a THEN b ELSE a
IMax(a, b) == IF a < b THEN b ELSE a

(* ------------------------------ outcomes ------------------------------ *)

Ok(v) == [kind |-> "ok", value |-> v]
Throw(e) == [kind |-> "throw", error |-> e]
Returned(o) == o.kind = "ok"

(* --------------------------- network strings -------------------------- *)

\* a string is a sequence of one-character strings
LowerChar(c) ==
  CASE c = "M" -> "m" [] c = "A" -> "a" [] c = "I" -> "i" [] c = "N" -> "n"
    [] c = "E" -> "e" [] c = "T" -> "t" [] c = "S" -> "s" [] c = "R" -> "r"
    [] c = "G" -> "g" [] OTHER -> c

ToLowerCase(s) == [i \in DOMAIN s |-> LowerChar(s[i])]

StrMainnet == <<"m", "a", "i", "n", "n", "e", "t">>
StrMain == <<"m", "a", "i", "n">>
StrTestnet == <<"t", "e", "s", "t", "n", "e", "t">>
StrRegtest == <<"r", "e", "g", "t", "e", "s", "t">>

Networks ==
  { StrMainnet, StrMain, StrTestnet, StrRegtest, <<>>,
    <<"M", "a", "i", "n", "N", "e", "t">>,
    <<"M", "A", "I", "N">>,
    <<"T", "E", "S", "T", "N", "E", "T">> }

(* -------------------------- activation height ------------------------- *)

MAINNET_ACTIVATION == 115000

GetActivationHeightOffByOne(net) ==
  LET n == ToLowerCase(net)
  IN  IF n = StrMainnet \/ n = StrMain THEN MAINNET_ACTIVATION + 1 ELSE 0

GetActivationHeight(net) ==
  LET n == ToLowerCase(net)
  IN  IF n = StrMainnet \/ n = StrMain THEN MAINNET_ACTIVATION ELSE 0

BLOCK_SECONDS_TARGET == 60
TESTNET_MAX_BLOCK_SECONDS == 1200

(* ----------------------- compact -> target helpers -------------------- *)

Pow2_23 == 8388608
Pow2_24 == 16777216

RECURSIVE Pow256(_)
Pow256(k) == IF k = 0 THEN 1 ELSE 256 * Pow256(k - 1)

\* the compact encoding with exponent byte e, sign bit s and mantissa m
Compact(e, s, m) == e * Pow2_24 + s * Pow2_23 + m

CompactToTarget(bits) ==
  IF bits <= 0 THEN Throw("Invalid bits")
  ELSE LET exp == (bits \div Pow2_24) % 256
           mant == bits % Pow2_23
       IN  IF (bits \div Pow2_23) % 2 # 0 \/ mant = 0
           THEN Throw("Invalid bits")
           ELSE IF exp <= 3 THEN Ok(mant \div Pow256(3 - exp))
           ELSE Ok(mant * Pow256(exp - 3))

SCALE == 1000000

\* floor(r * s / m) for 0 <= r < m and s a power of ten, by long division
RECURSIVE ScaledFraction(_, _, _)
ScaledFraction(r, m, s) ==
  IF s = 1 THEN 0
  ELSE ((r * 10) \div m) * (s \div 10)
         + ScaledFraction((r * 10) % m, m, s \div 10)

\* Number(ratioFp) / Number(SCALE) for ratioFp = (oldT * SCALE) / newT
RatioOf(oldT, newT) ==
  IF oldT \div newT >= RatioCap THEN PosInf
  ELSE Rat((oldT \div newT) * SCALE + ScaledFraction(oldT % newT, newT, SCALE),
           SCALE)

PctChangeFromBits(oldBits, newBits) ==
  LET oldO == CompactToTarget(oldBits)
      newO == CompactToTarget(newBits)
  IN  IF ~Returned(oldO) THEN oldO
      ELSE IF ~Returned(newO) THEN newO
      ELSE IF newO.value = 0 THEN Throw("RangeError: Division by zero")
      ELSE Ok(RMul(RSub(RatioOf(oldO.value, newO.value), RInt(1)), RInt(100)))

(* ----------------------------- input sets ----------------------------- *)

\* compact targets: every exponent byte up to MaxExp with either sign bit
\* and a small mantissa, mantissas wide enough to survive the right shift,
\* and the non-positive values
BitsSet ==
  { Compact(e, s, m) : e \in 0..MaxExp, s \in {0, 1}, m \in 0..MaxMant }
    \cup { Compact(e, 0, m) : e \in 0..3, m \in {256, 65536, Pow2_23 - 1} }
    \cup { 0, -1 }

ValidBits(b) == b > 0 /\ (b \div Pow2_23) % 2 = 0 /\ b % Pow2_23 # 0

NoCall == [op |-> "none"]

\* The functions keep no state of their own between calls, so a behaviour is
\* one provider state and one call made in it.
Idle == call = NoCall

\* the provider right after start-up: nothing indexed yet
ProviderEmpty ==
  /\ network = StrMainnet
  /\ currentHeight = 0
  /\ blockCache = <<>>
  /\ lastDATime = Null
  /\ prevRetarget = Null
  /\ quarterEpoch = Null
  /\ now = 0

(* ------------------- specification: the target engine ----------------- *)

InitBits == ProviderEmpty /\ call = NoCall

DoCompactToTarget ==
  /\ Idle
  /\ \E b \in BitsSet :
       /\ call' = [op |-> "compactToTarget", bits |-> b, out |-> CompactToTarget(b)]
       /\ UNCHANGED provider

DoPctChangeFromBits ==
  /\ Idle
  /\ \E o \in BitsSet, b \in BitsSet :
       /\ call' = [op |-> "pctChangeFromBits", oldBits |-> o, newBits |-> b,
                   out |-> PctChangeFromBits(o, b)]
       /\ UNCHANGED provider

NextBits == DoCompactToTarget \/ DoPctChangeFromBits

SpecBits == InitBits /\ [][NextBits]_vars

\* C2: for every valid compact target b, compactToTarget(b) returns a
\* target strictly greater than 0
C2_TargetPositive ==
  (call.op = "compactToTarget" /\ ValidBits(call.bits))
    => (Returned(call.out) /\ call.out.value > 0)

\* C3: for every valid compact target b, pctChangeFromBits(b, b) completes
\* normally and returns exactly 0
C3_SelfChangeZero ==
  (call.op = "pctChangeFromBits" /\ call.oldBits = call.newBits
     /\ ValidBits(call.oldBits))
    => (Returned(call.out) /\ call.out.value = RInt(0))

(* ------------------- the two-argument convenience form --------------- *)

CalcBitsDifferenceLeq(oldBits, newBits) ==
  LET height == currentHeight
      activation == GetActivationHeight(network)
      raw == PctChangeFromBits(oldBits, newBits)
  IN  IF ~Returned(raw) THEN raw
      ELSE IF height <= activation
      THEN Ok(RMax(RMin(raw.value, RInt(300)), RInt(-75)))
      ELSE Ok(RMax(RMin(raw.value, Rat(3334, 100)), Rat(-3334, 100)))

\* height is blocks.getCurrentBlockHeight(), network is config.MEMPOOL.NETWORK
CalcBitsDifference(oldBits, newBits) ==
  LET height == currentHeight
      activation == GetActivationHeight(network)
      raw == PctChangeFromBits(oldBits, newBits)
  IN  IF ~Returned(raw) THEN raw
      ELSE IF height < activation
      THEN Ok(RMax(RMin(raw.value, RInt(300)), RInt(-75)))
      ELSE Ok(RMax(RMin(raw.value, Rat(3334, 100)), Rat(-3334, 100)))

(* ------------------------ the retarget estimator ---------------------- *)

EPOCH_BLOCK_LENGTH == 1
LEGACY_MAX_UP == 300
LEGACY_MAX_DOWN == -75

\* 33.34 and -33.34
DIGI_MAX_UP == Rat(3334, 100)
DIGI_MAX_DOWN == Rat(-3334, 100)

\* (network || '').toLowerCase() === 'testnet'
IsTestnet(net) == ToLowerCase(net) = StrTestnet

\* an optional number used as a condition: null and 0 are falsy
Truthy(o) == IsPresent(o) /\ Val(o) # 0

LegacyClampNoFloor(dc) ==
  IF RLess(RInt(LEGACY_MAX_UP), dc) THEN RInt(LEGACY_MAX_UP) ELSE dc

LegacyClamp(dc) ==
  LET up == IF RLess(RInt(LEGACY_MAX_UP), dc) THEN RInt(LEGACY_MAX_UP) ELSE dc
  IN  IF RLess(up, RInt(LEGACY_MAX_DOWN)) THEN RInt(LEGACY_MAX_DOWN) ELSE up

DigiClampNoFloor(raw) == RMin(raw, DIGI_MAX_UP)

\* Math.max(Math.min(raw, DIGI_MAX_UP), DIGI_MAX_DOWN)
DigiClamp(raw) == RMax(RMin(raw, DIGI_MAX_UP), DIGI_MAX_DOWN)

TestnetTweakPositive(net, timeAvgSecs0, nowSeconds, latestBlockTimestamp) ==
  LET capped == IF RLess(RInt(TESTNET_MAX_BLOCK_SECONDS), timeAvgSecs0)
                THEN RInt(TESTNET_MAX_BLOCK_SECONDS) ELSE timeAvgSecs0
      secondsSinceLastBlock == nowSeconds - latestBlockTimestamp
  IN  [timeAvgSecs |-> capped,
       timeOffset |->
         IF RLess(RInt(TESTNET_MAX_BLOCK_SECONDS),
                  RAdd(RInt(secondsSinceLastBlock), capped))
         THEN IMin(secondsSinceLastBlock, TESTNET_MAX_BLOCK_SECONDS) * 1000
         ELSE 0]

\* the testnet tweak: the (possibly capped) average and the time offset
TestnetTweak(net, timeAvgSecs0, nowSeconds, latestBlockTimestamp) ==
  IF IsTestnet(net)
  THEN LET capped == IF RLess(RInt(TESTNET_MAX_BLOCK_SECONDS), timeAvgSecs0)
                     THEN RInt(TESTNET_MAX_BLOCK_SECONDS) ELSE timeAvgSecs0
           secondsSinceLastBlock == nowSeconds - latestBlockTimestamp
       IN  [timeAvgSecs |-> capped,
            timeOffset |->
              IF RLess(RInt(TESTNET_MAX_BLOCK_SECONDS),
                       RAdd(RInt(secondsSinceLastBlock), capped))
              THEN -IMin(secondsSinceLastBlock, TESTNET_MAX_BLOCK_SECONDS) * 1000
              ELSE 0]
  ELSE [timeAvgSecs |-> timeAvgSecs0, timeOffset |-> 0]

\* the pre-activation branch
LegacyView(DATime, quarterEpochTime, nowSeconds, blockHeight, previousRetarget, net, latestBlockTimestamp) ==
  LET diffSeconds == IMax(0, nowSeconds - DATime)
      blocksInEpoch == IF blockHeight >= 0
                       THEN blockHeight % EPOCH_BLOCK_LENGTH ELSE 0
      progressPercent == IF blockHeight >= 0
                         THEN RMul(Rat(blocksInEpoch, EPOCH_BLOCK_LENGTH), RInt(100))
                         ELSE RInt(100)
      remainingBlocks == EPOCH_BLOCK_LENGTH - blocksInEpoch
      nextRetargetHeight == IF blockHeight >= 0
                            THEN blockHeight + remainingBlocks ELSE 0
      expectedBlocks == Rat(diffSeconds, BLOCK_SECONDS_TARGET)
      actualTimespan == (IF blocksInEpoch = 2015 THEN latestBlockTimestamp
                         ELSE nowSeconds) - DATime
      timeAvgSecs0 == IF blocksInEpoch # 0 THEN Rat(diffSeconds, blocksInEpoch)
                      ELSE RInt(BLOCK_SECONDS_TARGET)
      smooth == Truthy(quarterEpochTime) /\ blocksInEpoch < 503
      timeLastEpoch == DATime - Val(quarterEpochTime)
      adjustedTimeLastEpoch ==
        RMul(RInt(timeLastEpoch), RAdd(RInt(1), Rat(previousRetarget, 100)))
      adjustedTimeSpan == RAdd(RInt(diffSeconds), adjustedTimeLastEpoch)
      adjustedTimeAvgSecs == IF smooth THEN RDiv(adjustedTimeSpan, RInt(503))
                             ELSE timeAvgSecs0
      rawChange ==
        IF smooth
        THEN RMul(RSub(RDiv(RInt(BLOCK_SECONDS_TARGET),
                            RDiv(adjustedTimeSpan, RInt(504))), RInt(1)),
                  RInt(100))
        ELSE RMul(RSub(RDiv(RInt(BLOCK_SECONDS_TARGET),
                            Rat(actualTimespan, blocksInEpoch + 1)), RInt(1)),
                  RInt(100))
      tweak == TestnetTweak(net, timeAvgSecs0, nowSeconds, latestBlockTimestamp)
      timeAvg == RFloor(RMul(tweak.timeAvgSecs, RInt(1000)))
      adjustedTimeAvg == RFloor(RMul(adjustedTimeAvgSecs, RInt(1000)))
      remainingTime == remainingBlocks * adjustedTimeAvg
  IN  Ok([progressPercent |-> progressPercent,
          difficultyChange |-> LegacyClamp(rawChange),
          estimatedRetargetDate |-> remainingTime + nowSeconds * 1000,
          remainingBlocks |-> remainingBlocks,
          remainingTime |-> remainingTime,
          previousRetarget |-> previousRetarget,
          previousTime |-> DATime,
          nextRetargetHeight |-> nextRetargetHeight,
          timeAvg |-> timeAvg,
          adjustedTimeAvg |-> adjustedTimeAvg,
          timeOffset |-> tweak.timeOffset,
          expectedBlocks |-> expectedBlocks])

PerBlockTimeAvgSecsCapped(nowSeconds, latestBlockTimestamp) ==
  IMin(IMax(1, nowSeconds - latestBlockTimestamp), TESTNET_MAX_BLOCK_SECONDS)

\* Math.max(1, nowSeconds - latestBlockTimestamp) || BLOCK_SECONDS_TARGET
PerBlockTimeAvgSecs(nowSeconds, latestBlockTimestamp) ==
  IF IMax(1, nowSeconds - latestBlockTimestamp) # 0
  THEN IMax(1, nowSeconds - latestBlockTimestamp)
  ELSE BLOCK_SECONDS_TARGET

\* the change between the two most recent cached blocks, clamped
PerBlockChange(cache) ==
  IF Len(cache) >= 2
  THEN LET raw == PctChangeFromBits(cache[Len(cache) - 1].bits,
                                    cache[Len(cache)].bits)
       IN  IF Returned(raw) THEN Ok(DigiClamp(raw.value)) ELSE raw
  ELSE Ok(RInt(0))

\* the post-activation branch; cache is what blocks.getBlocks() returns
PerBlockView(DATime, nowSeconds, blockHeight, previousRetarget, latestBlockTimestamp, cache) ==
  LET change == PerBlockChange(cache)
      timeAvgSecs == PerBlockTimeAvgSecs(nowSeconds, latestBlockTimestamp)
      adjustedTimeAvg == BLOCK_SECONDS_TARGET * 1000
      remainingTime == adjustedTimeAvg
  IN  IF ~Returned(change) THEN change
      ELSE Ok([progressPercent |-> RInt(100),
               difficultyChange |-> change.value,
               estimatedRetargetDate |-> nowSeconds * 1000 + remainingTime,
               remainingBlocks |-> 1,
               remainingTime |-> remainingTime,
               previousRetarget |-> previousRetarget,
               previousTime |-> DATime,
               nextRetargetHeight |-> blockHeight + 1,
               timeAvg |-> timeAvgSecs * 1000,
               adjustedTimeAvg |-> adjustedTimeAvg,
               timeOffset |-> 0,
               expectedBlocks |-> RInt(1)])

CalcDifficultyAdjustment(DATime, quarterEpochTime, nowSeconds, blockHeight, previousRetarget, net, latestBlockTimestamp, cache) ==
  IF blockHeight < GetActivationHeight(net)
  THEN LegacyView(DATime, quarterEpochTime, nowSeconds, blockHeight,
                  previousRetarget, net, latestBlockTimestamp)
  ELSE PerBlockView(DATime, nowSeconds, blockHeight, previousRetarget,
                    latestBlockTimestamp, cache)

(* --------------------- specification: the estimator ------------------- *)

Heights == {-1, 0} \cup ((MAINNET_ACTIVATION - 1)..(MAINNET_ACTIVATION + HeightSpan))

\* wall-clock and block times, in seconds
NowSamples == {0, 10, BLOCK_SECONDS_TARGET, 5 * BLOCK_SECONDS_TARGET,
               TESTNET_MAX_BLOCK_SECONDS + 10}
StampSamples == {0, BLOCK_SECONDS_TARGET}
QuarterSamples == {Null, Some(0), Some(10)}
RetargetSamples == {-200, 0, 50}

\* bits of cached blocks: targets 2..MaxMant, a target 65536 times larger,
\* a valid encoding whose target is 0, and one with the sign bit set
CacheBits ==
  { Compact(3, 0, m) : m \in 2..MaxMant }
    \cup { Compact(5, 0, 1), Compact(1, 0, 1), Compact(3, 1, 1) }

Block(b, t) == [bits |-> b, timestamp |-> t]

CalcCaches ==
  { <<>> } \cup { <<Block(b, 0)>> : b \in CacheBits }
    \cup { <<Block(a, 0), Block(b, 0)>> : a \in CacheBits, b \in CacheBits }

InitCalc ==
  /\ network = StrMainnet
  /\ currentHeight = 0
  /\ blockCache \in CalcCaches
  /\ lastDATime = Null
  /\ prevRetarget = Null
  /\ quarterEpoch = Null
  /\ now = 0
  /\ call = NoCall

DoCalcDifficultyAdjustment ==
  /\ Idle
  /\ \E da \in StampSamples, q \in QuarterSamples, t \in NowSamples,
        h \in Heights, pr \in RetargetSamples, net \in Networks,
        lts \in StampSamples :
       /\ call' = [op |-> "calcDifficultyAdjustment",
                   DATime |-> da, quarterEpochTime |-> q, nowSeconds |-> t,
                   blockHeight |-> h, previousRetarget |-> pr, network |-> net,
                   latestBlockTimestamp |-> lts,
                   out |-> CalcDifficultyAdjustment(da, q, t, h, pr, net, lts,
                                                    blockCache)]
       /\ UNCHANGED provider

NextCalc == DoCalcDifficultyAdjustment

SpecCalc == InitCalc /\ [][NextCalc]_vars

IsCalc == call.op = "calcDifficultyAdjustment"

\* the snapshot a returned call of calcDifficultyAdjustment produced
Snap == call.out.value

MainFamily(net) == ToLowerCase(net) \in {StrMainnet, StrMain}

InRange(x, lo, hi) == RLeq(lo, x) /\ RLeq(x, hi)

\* C1: the difficultyChange calcDifficultyAdjustment returns lies in
\* [-75, 300] below the activation height of the network and in
\* [-33.34, 33.34] at or above it, for every input and every cached bits
C1_ChangeClamped ==
  (IsCalc /\ Returned(call.out))
    => IF call.blockHeight < GetActivationHeight(call.network)
       THEN InRange(Snap.difficultyChange, RInt(-75), RInt(300))
       ELSE InRange(Snap.difficultyChange, Rat(-3334, 100), Rat(3334, 100))

\* a legacy-era call whose elapsed timespan is negative came back clamped
C1_Witness ==
  /\ IsCalc /\ Returned(call.out)
  /\ call.blockHeight < GetActivationHeight(call.network)
  /\ call.nowSeconds < call.DATime
  /\ Snap.difficultyChange = RInt(-75)

\* the latest cached block is easier than the previous one by more than
\* 33.34% raw, in a call on mainnet at exactly the activation height
C4_Case ==
  /\ IsCalc
  /\ MainFamily(call.network)
  /\ call.blockHeight = 115000
  /\ Len(blockCache) >= 2
  /\ LET raw == PctChangeFromBits(blockCache[Len(blockCache) - 1].bits,
                                  blockCache[Len(blockCache)].bits)
     IN  Returned(raw) /\ RLess(raw.value, Rat(-3334, 100))

\* C4 as stated: in that case the call returns difficultyChange = 33.34
C4_Original ==
  C4_Case => (Returned(call.out) /\ Snap.difficultyChange = Rat(3334, 100))

\* C4 (amended): on mainnet at height 115000, when the latest cached block's
\* bits are easier than the previous block's by more than 33.34% raw, the
\* returned difficultyChange is -33.34, the clamped value and not the raw one
C4_ClampedDown ==
  C4_Case => (Returned(call.out) /\ Snap.difficultyChange = Rat(-3334, 100))

\* such a call between two positive targets came back clamped to -33.34
C4_Witness ==
  /\ C4_Case
  /\ CompactToTarget(blockCache[Len(blockCache) - 1].bits).value > 0
  /\ Returned(call.out)
  /\ Snap.difficultyChange = Rat(-3334, 100)
  /\ Snap.difficultyChange # PctChangeFromBits(blockCache[Len(blockCache) - 1].bits,
                                               blockCache[Len(blockCache)].bits).value

\* C7: with activation height 115000 for 'mainnet'/'main' in any case and 0
\* for every other network, a call with blockHeight at or above it returns a
\* per-block-shaped snapshot
C7_PerBlockShape ==
  (IsCalc /\ Returned(call.out)
     /\ call.blockHeight >= (IF MainFamily(call.network) THEN 115000 ELSE 0))
    => /\ Snap.progressPercent = RInt(100)
       /\ Snap.remainingBlocks = 1
       /\ Snap.nextRetargetHeight = call.blockHeight + 1
       /\ Snap.timeOffset = 0
       /\ Snap.expectedBlocks = RInt(1)
       /\ Snap.previousRetarget = call.previousRetarget

\* regtest at height 0 came back per-block shaped
C7_Witness ==
  /\ IsCalc /\ Returned(call.out)
  /\ call.network = StrRegtest
  /\ call.blockHeight = 0
  /\ Snap.progressPercent = RInt(100)
  /\ Snap.nextRetargetHeight = 1

\* C8: in every returned snapshot timeOffset is <= 0 when the network is
\* 'testnet' in any case, and exactly 0 for every other network string
C8_TimeOffset ==
  (IsCalc /\ Returned(call.out))
    => IF ToLowerCase(call.network) = StrTestnet
       THEN Snap.timeOffset <= 0
       ELSE Snap.timeOffset = 0

\* a testnet call that produced a negative offset
C8_Witness ==
  /\ IsCalc /\ Returned(call.out)
  /\ ToLowerCase(call.network) = StrTestnet
  /\ Snap.timeOffset < 0

\* C10: on 'testnet' (any case) with blockHeight >= 0 the per-block branch
\* runs: timeOffset is 0 and timeAvg is max(1, now - latest) * 1000 with no
\* cap at 1200 seconds; a nonzero timeOffset needs blockHeight < 0
C10_TestnetNeverTweaked ==
  (IsCalc /\ Returned(call.out) /\ ToLowerCase(call.network) = StrTestnet)
    => /\ call.blockHeight >= 0 =>
            /\ Snap.timeOffset = 0
            /\ Snap.timeAvg =
                 IMax(1, call.nowSeconds - call.latestBlockTimestamp) * 1000
       /\ Snap.timeOffset # 0 => call.blockHeight < 0

\* a testnet call at a real height whose average exceeds the 1200 s cap
C10_Witness ==
  /\ IsCalc /\ Returned(call.out)
  /\ ToLowerCase(call.network) = StrTestnet
  /\ call.blockHeight >= 0
  /\ Snap.timeAvg > 1200 * 1000

(* ---------------- specification: the two-argument form ---------------- *)

InitBitsDiff ==
  /\ network \in Networks
  /\ currentHeight \in Heights
  /\ blockCache = <<>>
  /\ lastDATime = Null
  /\ prevRetarget = Null
  /\ quarterEpoch = Null
  /\ now = 0
  /\ call = NoCall

DoCalcBitsDifference ==
  /\ Idle
  /\ \E o \in BitsSet, b \in BitsSet :
       /\ call' = [op |-> "calcBitsDifference", oldBits |-> o, newBits |-> b,
                   out |-> CalcBitsDifference(o, b)]
       /\ UNCHANGED provider

NextBitsDiff == DoCalcBitsDifference

SpecBitsDiff == InitBitsDiff /\ [][NextBitsDiff]_vars

Clamped(x, lo, hi) == IF RLess(x, lo) THEN lo ELSE IF RLess(hi, x) THEN hi ELSE x

\* the provider's height is at or above the configured network's activation
AtOrAboveActivation ==
  currentHeight >= (IF MainFamily(network) THEN 115000 ELSE 0)

\* C9: for valid compact targets calcBitsDifference(oldBits, newBits) is the
\* unclamped pctChangeFromBits clamped to [-75, 300] when the provider's
\* height is below the configured network's activation height and to
\* [-33.34, 33.34] otherwise, and at or above activation it is the
\* difficultyChange calcDifficultyAdjustment reports for previous bits =
\* oldBits and latest bits = newBits
C9_BitsDifference ==
  (call.op = "calcBitsDifference" /\ ValidBits(call.oldBits)
     /\ ValidBits(call.newBits))
    => LET raw == PctChangeFromBits(call.oldBits, call.newBits)
           est == CalcDifficultyAdjustment(0, Null, now, currentHeight, 0,
                    network, 0, <<Block(call.oldBits, 0), Block(call.newBits, 0)>>)
       IN  IF Returned(raw)
           THEN /\ Returned(call.out)
                /\ call.out.value =
                     (IF AtOrAboveActivation
                      THEN Clamped(raw.value, Rat(-3334, 100), Rat(3334, 100))
                      ELSE Clamped(raw.value, RInt(-75), RInt(300)))
                /\ AtOrAboveActivation =>
                     call.out.value = est.value.difficultyChange
           ELSE ~Returned(call.out)

\* at the activation height itself, a raw change above both clamps came back
\* as 33.34
C9_Witness ==
  /\ call.op = "calcBitsDifference"
  /\ ValidBits(call.oldBits) /\ ValidBits(call.newBits)
  /\ MainFamily(network) /\ currentHeight = 115000
  /\ Returned(call.out)
  /\ RLess(RInt(300), PctChangeFromBits(call.oldBits, call.newBits).value)
  /\ call.out.value = Rat(3334, 100)

(* ----------------------- the estimator facade -------------------------- *)

Unavailable == [kind |-> "unavailable"]

GetDifficultyAdjustmentNoRetargetCheck ==
  IF Len(blockCache) = 0 \/ ~IsPresent(lastDATime)
  THEN [delegated |-> FALSE, out |-> Unavailable]
  ELSE LET args == [DATime |-> Val(lastDATime),
                    quarterEpochTime |-> quarterEpoch,
                    nowSeconds |-> now,
                    blockHeight |-> currentHeight,
                    previousRetarget |->
                      IF IsPresent(prevRetarget) THEN Val(prevRetarget) ELSE 0,
                    network |-> network,
                    latestBlockTimestamp |-> blockCache[Len(blockCache)].timestamp]
       IN  [delegated |-> TRUE, args |-> args,
            out |-> CalcDifficultyAdjustment(args.DATime, args.quarterEpochTime,
                      args.nowSeconds, args.blockHeight, args.previousRetarget,
                      args.network, args.latestBlockTimestamp, blockCache)]

\* DifficultyAdjustmentApi.getDifficultyAdjustment: what it passes on and how
\* it ends
GetDifficultyAdjustment ==
  IF Len(blockCache) = 0 \/ ~IsPresent(lastDATime) \/ ~IsPresent(prevRetarget)
  THEN [delegated |-> FALSE, out |-> Unavailable]
  ELSE LET args == [DATime |-> Val(lastDATime),
                    quarterEpochTime |-> quarterEpoch,
                    nowSeconds |-> now,
                    blockHeight |-> currentHeight,
                    previousRetarget |-> Val(prevRetarget),
                    network |-> network,
                    latestBlockTimestamp |-> blockCache[Len(blockCache)].timestamp]
       IN  [delegated |-> TRUE, args |-> args,
            out |-> CalcDifficultyAdjustment(args.DATime, args.quarterEpochTime,
                      args.nowSeconds, args.blockHeight, args.previousRetarget,
                      args.network, args.latestBlockTimestamp, blockCache)]

(* ---------------------- specification: the facade ---------------------- *)

\* recent-blocks caches of up to two blocks; the latest block's timestamp varies
FacadeCaches ==
  { <<>> }
    \cup { <<Block(b, t)>> : b \in CacheBits, t \in StampSamples }
    \cup { <<Block(a, 0), Block(b, t)>> :
             a \in CacheBits, b \in CacheBits, t \in StampSamples }

InitFacade ==
  /\ network \in Networks
  /\ currentHeight \in Heights
  /\ blockCache \in FacadeCaches
  /\ lastDATime \in {Null, Some(0), Some(BLOCK_SECONDS_TARGET)}
  /\ prevRetarget \in {Null, Some(0), Some(50)}
  /\ quarterEpoch \in QuarterSamples
  /\ now \in {BLOCK_SECONDS_TARGET, TESTNET_MAX_BLOCK_SECONDS + 10}
  /\ call = NoCall

DoGetDifficultyAdjustment ==
  /\ Idle
  /\ call' = [op |-> "getDifficultyAdjustment", res |-> GetDifficultyAdjustment]
  /\ UNCHANGED provider

NextFacade == DoGetDifficultyAdjustment

SpecFacade == InitFacade /\ [][NextFacade]_vars

IsFacade == call.op = "getDifficultyAdjustment"

BaselineMissing ==
  lastDATime = Null \/ prevRetarget = Null \/ blockCache = <<>>

\* C5: when the last difficulty-adjustment time, the previous-retarget
\* percentage or the latest block is absent, getDifficultyAdjustment returns
\* the unavailable result without calling the estimator and without raising;
\* when all three are present it delegates to calcDifficultyAdjustment with
\* the latest block's timestamp
C5_FacadePresence ==
  IsFacade
    => IF BaselineMissing
       THEN ~call.res.delegated /\ call.res.out = Unavailable
       ELSE /\ call.res.delegated
            /\ call.res.args.DATime = lastDATime[1]
            /\ call.res.args.previousRetarget = prevRetarget[1]
            /\ call.res.args.blockHeight = currentHeight
            /\ call.res.args.network = network
            /\ call.res.args.latestBlockTimestamp =
                 blockCache[Len(blockCache)].timestamp
            /\ call.res.out =
                 CalcDifficultyAdjustment(lastDATime[1], quarterEpoch, now,
                   currentHeight, prevRetarget[1], network,
                   blockCache[Len(blockCache)].timestamp, blockCache)

\* only the previous-retarget percentage was absent and the call came back
\* unavailable
C5_Witness ==
  /\ IsFacade
  /\ lastDATime # Null /\ blockCache # <<>> /\ prevRetarget = Null
  /\ call.res.out = Unavailable

\* C6: every call of getDifficultyAdjustment, in every provider state, ends
\* by returning a snapshot or the unavailable result; none ends with a raised
\* error
C6_NeverRaises ==
  IsFacade => call.res.out.kind \in {"ok", "unavailable"}

====
